---- MODULE Spec2Model ----
(***************************************************************************)
(* heapless_topo: a Graph<EDGES> is a fixed-capacity vector of edges;      *)
(* insert_edge appends one edge, into_topo_sorted consumes the graph and   *)
(* runs Kahn's algorithm over the edge vector (src/src/lib.rs).            *)
(*                                                                         *)
(* The state is the capacity of the instantiated Graph, the edge vector,   *)
(* and the locals of into_topo_sorted (starting_nodes, res, edges) between *)
(* iterations of its main loop.  The node the loop takes from              *)
(* starting_nodes is chosen nondeterministically: the iteration order of   *)
(* the index set is not something the crate fixes.                         *)
(***************************************************************************)
EXTENDS Naturals, Sequences, FiniteSets

VARIABLES
    cap,             \* the const generic EDGES of this Graph
    pc,              \* "caller" | "graph" | "loop" | "done"
    edges,           \* Graph::edges, then the local `edges` of the sort
    starting_nodes,  \* the local FnvIndexSet of into_topo_sorted
    res,             \* the local output vector of into_topo_sorted
    result,          \* what into_topo_sorted returned: "none" until it returns
    site,            \* the statement that returned from into_topo_sorted
    input,           \* the edge vector as it was when the sort consumed it
    iters,           \* how many times the body of the main loop has run
    insert_result,   \* what the last insert_edge returned
    last_edge        \* the argument of the last insert_edge (InsertSpec only)

vars == <<cap, pc, edges, starting_nodes, res, result, site, input, iters,
          insert_result, last_edge>>

\* Largest capacity EDGES explored.
MaxCap == 4

\* Largest node identifier handed to insert_edge under InsertSpec.
MaxInsertNode == 1

NoEdge == [from |-> 0, to |-> 0]

Edge(f, t) == [from |-> f, to |-> t]

----------------------------------------------------------------------------
(* heapless containers, as the crate uses them *)

\* A push that lets one element too many in.
VecPush_OffByOne(v, x, n) ==
    IF Len(v) <= n THEN [ok |-> TRUE, vec |-> Append(v, x)]
                   ELSE [ok |-> FALSE, vec |-> v]

\* Vec<T, N>::push: appends unless the vector already holds N elements.
VecPush(v, x, n) ==
    IF Len(v) < n THEN [ok |-> TRUE, vec |-> Append(v, x)]
                  ELSE [ok |-> FALSE, vec |-> v]

\* An index set that holds one key fewer than N.
SetInsert_OneLess(s, x, n) ==
    IF x \in s THEN [ok |-> TRUE, set |-> s]
    ELSE IF Cardinality(s) + 1 < n THEN [ok |-> TRUE, set |-> s \cup {x}]
    ELSE [ok |-> FALSE, set |-> s]

\* FnvIndexSet<T, N>::insert: Ok for a member, Err for a new key of a full set.
SetInsert(s, x, n) ==
    IF x \in s THEN [ok |-> TRUE, set |-> s]
    ELSE IF Cardinality(s) < n THEN [ok |-> TRUE, set |-> s \cup {x}]
    ELSE [ok |-> FALSE, set |-> s]

\* A remove that leaves the key in the set.
SetRemove_Noop(s, x) == s

\* FnvIndexSet<T, N>::remove.
SetRemove(s, x) == s \ {x}

\* FnvIndexSet<usize, EDGES>::new() is instantiable only for a power of two
\* greater than one; insert_edge alone works for every EDGES >= 1.
RECURSIVE IsPowerOfTwo(_)
IsPowerOfTwo(n) ==
    IF n = 1 THEN TRUE
    ELSE IF n = 0 \/ n % 2 = 1 THEN FALSE
    ELSE IsPowerOfTwo(n \div 2)

CanSort(n) == n > 1 /\ IsPowerOfTwo(n)

----------------------------------------------------------------------------
(* the steps of into_topo_sorted *)

\* Seeding from edge.to instead of edge.from.
RECURSIVE SeedFrom_To(_, _, _, _)
SeedFrom_To(es, idx, s, n) ==
    IF idx > Len(es) THEN [ok |-> TRUE, set |-> s]
    ELSE IF s \cup {es[idx].to} = s \/ Cardinality(s) < n
         THEN SeedFrom_To(es, idx + 1, s \cup {es[idx].to}, n)
         ELSE [ok |-> FALSE, set |-> s]

\* for edge in &edges { starting_nodes.insert(edge.from)? }
RECURSIVE SeedFrom(_, _, _, _)
SeedFrom(es, idx, s, n) ==
    IF idx > Len(es) THEN [ok |-> TRUE, set |-> s]
    ELSE LET r == SetInsert(s, es[idx].from, n)
         IN  IF r.ok THEN SeedFrom(es, idx + 1, r.set, n)
                     ELSE [ok |-> FALSE, set |-> s]

\* The second pass left out: every `from` node stays a starting node.
RemoveIncoming_Skip(es, idx, s) == s

\* for edge in &edges { if contains(edge.to) { remove(edge.to) } }
RECURSIVE RemoveIncoming(_, _, _)
RemoveIncoming(es, idx, s) ==
    IF idx > Len(es) THEN s
    ELSE RemoveIncoming(es, idx + 1,
                        IF es[idx].to \in s THEN SetRemove(s, es[idx].to) ELSE s)

\* The scan for other incoming edges left out.
MHasBecomeStarting_Unchecked(es, edge) == TRUE

\* The scan without `check_edge.from != edge.from`: the edge blocks itself.
MHasBecomeStarting_AnyIncoming(es, edge) ==
    ~ \E i \in 1..Len(es) : es[i].to = edge.to

\* m_has_become_starting: no edge into edge.to comes from another node.
MHasBecomeStarting(es, edge) ==
    ~ \E i \in 1..Len(es) : es[i].to = edge.to /\ es[i].from # edge.from

\* Freed nodes never put into the starting set.
InnerLoop_NoInsert(es, node, idx, s, n) == [ok |-> TRUE, set |-> s]

\* for (idx, edge) in edges.iter().enumerate() { ... insert(edge.to)? ... }
RECURSIVE InnerLoop(_, _, _, _, _)
InnerLoop(es, node, idx, s, n) ==
    IF idx > Len(es) THEN [ok |-> TRUE, set |-> s]
    ELSE IF es[idx].from = node /\ MHasBecomeStarting(es, es[idx])
         THEN LET r == SetInsert(s, es[idx].to, n)
              IN  IF r.ok THEN InnerLoop(es, node, idx + 1, r.set, n)
                          ELSE [ok |-> FALSE, set |-> s]
         ELSE InnerLoop(es, node, idx + 1, s, n)

\* starting_edges: EDGES flags, all false, then true at every edge leaving node.
StartingEdges(es, node, n) ==
    [i \in 1..n |-> i <= Len(es) /\ es[i].from = node]

\* The retain predicate without its negation: keeps the flagged edges.
RECURSIVE Retain_Inverted(_, _, _)
Retain_Inverted(es, flags, idx) ==
    IF idx > Len(es) THEN <<>>
    ELSE (IF flags[idx] THEN <<es[idx]>> ELSE <<>>)
             \o Retain_Inverted(es, flags, idx + 1)

\* edges.retain(|_| !it.next().unwrap()): keeps the unflagged edges, in order.
RECURSIVE Retain(_, _, _)
Retain(es, flags, idx) ==
    IF idx > Len(es) THEN <<>>
    ELSE (IF flags[idx] THEN <<>> ELSE <<es[idx]>>) \o Retain(es, flags, idx + 1)

----------------------------------------------------------------------------
(* the inputs explored *)

NodesOfSeq(es) == {es[i].from : i \in 1..Len(es)} \cup {es[i].to : i \in 1..Len(es)}

\* Node identifiers are only compared and hashed, so edges are enumerated up
\* to renaming: an edge uses identifiers already present or the next unused.
EdgeArgs(es) ==
    LET k == Cardinality(NodesOfSeq(es))
    IN  {Edge(f, t) : f \in 0..k, t \in 0..k} \cup {Edge(k, k + 1)}

InsertArgs == {Edge(f, t) : f \in 0..MaxInsertNode, t \in 0..MaxInsertNode}

sortLocals == <<starting_nodes, res, result, site, input, iters>>

Init ==
    /\ cap \in 1..MaxCap
    /\ pc = "caller"
    /\ edges = <<>>
    /\ starting_nodes = {}
    /\ res = <<>>
    /\ result = "none"
    /\ site = "none"
    /\ input = <<>>
    /\ iters = 0
    /\ insert_result = "none"
    /\ last_edge = NoEdge

\* The caller fills a heapless::Vec<Edge, EDGES> of its own (tests::ok).
CallerPush(edge) ==
    /\ pc = "caller"
    /\ VecPush(edges, edge, cap).ok
    /\ edges' = VecPush(edges, edge, cap).vec
    /\ UNCHANGED <<cap, pc, insert_result, last_edge>>
    /\ UNCHANGED sortLocals

\* Graph::new_with_edges(edges)
NewWithEdges ==
    /\ pc = "caller"
    /\ edges # <<>>
    /\ pc' = "graph"
    /\ UNCHANGED <<cap, edges, insert_result, last_edge>>
    /\ UNCHANGED sortLocals

\* Graph::new()
New ==
    /\ pc = "caller"
    /\ edges = <<>>
    /\ pc' = "graph"
    /\ edges' = <<>>
    /\ UNCHANGED <<cap, insert_result, last_edge>>
    /\ UNCHANGED sortLocals

\* Graph::insert_edge(edge)
InsertEdge(edge) ==
    /\ pc = "graph"
    /\ LET r == VecPush(edges, edge, cap)
       IN  /\ edges' = r.vec
           /\ insert_result' = IF r.ok THEN "Ok" ELSE "OverCapacity"
    /\ UNCHANGED <<cap, pc>>
    /\ UNCHANGED sortLocals

\* Graph::into_topo_sorted(self), up to the head of the main loop.
IntoTopoSorted ==
    /\ pc = "graph"
    /\ CanSort(cap)
    /\ input' = edges
    /\ LET seeded == SeedFrom(edges, 1, {}, cap)
       IN  IF seeded.ok
           THEN /\ starting_nodes' = RemoveIncoming(edges, 1, seeded.set)
                /\ pc' = "loop"
                /\ UNCHANGED <<result, site>>
           ELSE /\ starting_nodes' = seeded.set
                /\ pc' = "done"
                /\ result' = "OverCapacity"
                /\ site' = "seed"
    /\ res' = <<>>
    /\ iters' = 0
    /\ insert_result' = "none"
    /\ last_edge' = NoEdge
    /\ UNCHANGED <<cap, edges>>

\* One run of the body of `while !starting_nodes.is_empty()`, taking `node`.
LoopBody(node) ==
    /\ pc = "loop"
    /\ node \in starting_nodes
    /\ iters' = iters + 1
    /\ LET s1 == SetRemove(starting_nodes, node)
           pushed == VecPush(res, node, cap)
           inner == InnerLoop(edges, node, 1, s1, cap)
       IN  IF ~pushed.ok
           THEN /\ starting_nodes' = s1
                /\ pc' = "done"
                /\ result' = "OverCapacity"
                /\ site' = "push"
                /\ UNCHANGED <<res, edges>>
           ELSE IF ~inner.ok
           THEN /\ starting_nodes' = inner.set
                /\ res' = pushed.vec
                /\ pc' = "done"
                /\ result' = "OverCapacity"
                /\ site' = "insert"
                /\ UNCHANGED edges
           ELSE /\ starting_nodes' = inner.set
                /\ res' = pushed.vec
                /\ edges' = Retain(edges, StartingEdges(edges, node, cap), 1)
                /\ UNCHANGED <<pc, result, site>>
    /\ UNCHANGED <<cap, input, insert_result, last_edge>>

\* The loop ends: if edges.is_empty() { Ok(res) } else { Err(Error::Cycle) }
LoopExit ==
    /\ pc = "loop"
    /\ starting_nodes = {}
    /\ pc' = "done"
    /\ result' = IF edges = <<>> THEN "Ok" ELSE "Cycle"
    /\ site' = "end"
    /\ UNCHANGED <<cap, edges, starting_nodes, res, input, iters,
                   insert_result, last_edge>>

SortStep == (\E node \in starting_nodes : LoopBody(node)) \/ LoopExit

Next ==
    \/ \E edge \in EdgeArgs(edges) : CallerPush(edge)
    \/ NewWithEdges
    \/ New
    \/ \E edge \in EdgeArgs(edges) : InsertEdge(edge) /\ UNCHANGED last_edge
    \/ IntoTopoSorted
    \/ \E node \in starting_nodes : LoopBody(node)
    \/ LoopExit

Spec == Init /\ [][Next]_vars

\* into_topo_sorted is straight-line code: once called, it keeps running.
FairSpec == Spec /\ WF_vars(SortStep)

\* insert_edge alone, with its argument recorded.
InsertNext ==
    \/ New
    \/ \E edge \in InsertArgs : InsertEdge(edge) /\ last_edge' = edge

InsertSpec == Init /\ [][InsertNext]_vars

----------------------------------------------------------------------------
(* graph notions the properties are stated in, over the SET of input edges *)

EdgeSet(es) == {es[i] : i \in 1..Len(es)}

Nodes(E) == {e.from : e \in E} \cup {e.to : e \in E}

Succ(E, S) == {e.to : e \in {d \in E : d.from \in S}}

\* S and everything reachable from it along edges of E.
RECURSIVE ReachFrom(_, _)
ReachFrom(E, S) ==
    LET T == S \cup Succ(E, S)
    IN  IF T = S THEN S ELSE ReachFrom(E, T)

\* The nodes lying on a directed cycle of E (a self-loop included).
OnCycle(E) == {n \in Nodes(E) : n \in ReachFrom(E, Succ(E, {n}))}

HasCycle(E) == OnCycle(E) # {}

\* The nodes that are neither on a cycle nor reachable from one.
Sortable(E) == Nodes(E) \ ReachFrom(E, OnCycle(E))

Range(seq) == {seq[i] : i \in 1..Len(seq)}

NoDup(seq) == \A i, j \in 1..Len(seq) : seq[i] = seq[j] => i = j

Pos(seq, x) == CHOOSE i \in 1..Len(seq) : seq[i] = x

\* seq places the source of every edge of E strictly before its target.
Respects(seq, E) ==
    \A e \in E : /\ e.from \in Range(seq)
                 /\ e.to \in Range(seq)
                 /\ \A i, j \in 1..Len(seq) :
                        seq[i] = e.from /\ seq[j] = e.to => i < j

Returned == pc = "done"

----------------------------------------------------------------------------
(* C1: for an acyclic edge list (duplicates allowed) with at most C edges  *)
(* and at most C distinct nodes, into_topo_sorted returns Ok(seq) and seq  *)
(* places `from` strictly before `to` for every input edge, whichever      *)
(* starting node each loop step picked.                                    *)
C1_TopoOrder ==
    (Returned /\ ~HasCycle(EdgeSet(input))
              /\ Cardinality(Nodes(EdgeSet(input))) <= cap)
        => (result = "Ok" /\ Respects(res, EdgeSet(input)))

\* A sorted diamond with a duplicated edge: two nodes were startable at once
\* and one node had incoming edges from two different nodes.
C1_Witness ==
    /\ Returned /\ result = "Ok" /\ Len(input) = 4
    /\ Cardinality(EdgeSet(input)) = 3
    /\ \E e, d \in EdgeSet(input) : e.to = d.to /\ e.from # d.from
    /\ Respects(res, EdgeSet(input))

(* C2: whenever into_topo_sorted returns Ok(seq), seq holds every node     *)
(* that occurs in an input edge exactly once and nothing else, so its      *)
(* length is the number of distinct nodes (0 for the empty graph).         *)
C2_Totality ==
    (Returned /\ result = "Ok")
        => /\ Range(res) = Nodes(EdgeSet(input))
           /\ NoDup(res)
           /\ Len(res) = Cardinality(Nodes(EdgeSet(input)))

C2_Witness ==
    /\ Returned /\ result = "Ok"
    /\ Len(res) = cap /\ cap = 4
    /\ Range(res) = Nodes(EdgeSet(input))

(* C3, as claimed: every edge list of at most C edges that contains a      *)
(* directed cycle yields Err(Cycle), however many acyclic edges and nodes  *)
(* surround the cycle.                                                     *)
C3_Claimed ==
    (Returned /\ HasCycle(EdgeSet(input))) => result = "Cycle"

(* C3, amended: an edge list of at most C edges that contains a directed   *)
(* cycle yields Err(Cycle) when at most C of its nodes are neither on a    *)
(* cycle nor reachable from one, and Err(OverCapacity) otherwise.          *)
C3_CycleDetected ==
    (Returned /\ HasCycle(EdgeSet(input)))
        => result = (IF Cardinality(Sortable(EdgeSet(input))) <= cap
                     THEN "Cycle" ELSE "OverCapacity")

\* A cycle behind an acyclic prefix that was sorted first.
C3_Witness ==
    /\ Returned /\ result = "Cycle"
    /\ Cardinality(OnCycle(EdgeSet(input))) >= 2
    /\ Len(res) >= 2 /\ Len(edges) >= 2

(* C5, as claimed: every edge list of at most C edges with more than C     *)
(* distinct nodes yields Err(OverCapacity).                                *)
C5_Claimed ==
    (Returned /\ Cardinality(Nodes(EdgeSet(input))) > cap)
        => result = "OverCapacity"

(* C5, amended: every edge list of at most C edges in which more than C    *)
(* nodes are neither on a cycle nor reachable from one (so every acyclic   *)
(* list with more than C distinct nodes) yields Err(OverCapacity).         *)
C5_OverCapacity ==
    (Returned /\ Cardinality(Sortable(EdgeSet(input))) > cap)
        => result = "OverCapacity"

\* tests::err_num_nodes_greater_than_num_edges: a path of 2 edges, EDGES = 2.
C5_Witness ==
    /\ Returned /\ result = "OverCapacity"
    /\ ~HasCycle(EdgeSet(input))
    /\ Cardinality(Nodes(EdgeSet(input))) = cap + 1
    /\ Len(res) = cap

(* C6, as claimed: capacity (number of edges) + 1 is enough in the worst   *)
(* case: an acyclic graph of E edges with C >= E + 1 sorts to Ok, never    *)
(* Err(OverCapacity).                                                      *)
C6_Claimed ==
    (Returned /\ ~HasCycle(EdgeSet(input)) /\ cap >= Len(input) + 1)
        => result = "Ok"

(* C7: Err(Cycle) is returned only for an input with a directed cycle; an  *)
(* acyclic input yields Ok or Err(OverCapacity); and when the main loop    *)
(* ends with edges left, each of them leaves a node that is on a cycle of  *)
(* the remaining edges or reachable from one.                              *)
C7_CycleOnlyIfCyclic ==
    /\ (Returned /\ result = "Cycle") => HasCycle(EdgeSet(input))
    /\ (Returned /\ ~HasCycle(EdgeSet(input)))
           => result \in {"Ok", "OverCapacity"}
    /\ (Returned /\ site = "end" /\ edges # <<>>)
           => \A e \in EdgeSet(edges) :
                  e.from \in ReachFrom(EdgeSet(edges), OnCycle(EdgeSet(edges)))

\* The loop ended with a cycle and an edge that only leaves the cycle.
C7_Witness ==
    /\ Returned /\ result = "Cycle" /\ site = "end"
    /\ \E e \in EdgeSet(edges) : e.to \notin OnCycle(EdgeSet(edges))
    /\ Len(res) >= 1

\* The kind of result, as a function of the edge set and the capacity alone.
KindOf(E, n) ==
    IF Cardinality(Sortable(E)) > n THEN "OverCapacity"
    ELSE IF HasCycle(E) THEN "Cycle"
    ELSE "Ok"

(* C8: the kind of result (Ok, Err(Cycle), Err(OverCapacity)) depends only *)
(* on which edges the graph holds and on C, not on the order they were     *)
(* inserted in nor on the starting node picked at each step; and every Ok  *)
(* sequence is a topological order of the whole node set.                  *)
C8_OrderIndependent ==
    Returned =>
        /\ result = KindOf(EdgeSet(input), cap)
        /\ result = "Ok" => /\ Respects(res, EdgeSet(input))
                            /\ Range(res) = Nodes(EdgeSet(input))

\* An Ok result whose input was not inserted in topological order and where
\* the loop had a choice of starting node.
C8_Witness ==
    /\ Returned /\ result = "Ok" /\ Len(input) >= 3
    /\ \E i, j \in 1..Len(input) : i < j /\ input[j].to = input[i].from
    /\ \E i, j \in 1..Len(res) : i < j /\ res[i] > res[j]

(* C4: the edge vector never holds more than C edges; insert_edge on a     *)
(* graph of fewer than C edges returns Ok and appends its argument,        *)
(* leaving the earlier edges and their order as they were; insert_edge on  *)
(* a graph of exactly C edges returns Err(OverCapacity) and leaves the     *)
(* edge vector unchanged.                                                  *)
C4_InsertEdge ==
    [][(pc = "graph" /\ pc' = "graph") =>
          /\ Len(edges') <= cap
          /\ IF Len(edges) < cap
             THEN /\ insert_result' = "Ok"
                  /\ Len(edges') = Len(edges) + 1
                  /\ SubSeq(edges', 1, Len(edges)) = edges
                  /\ edges'[Len(edges')] = last_edge'
             ELSE /\ insert_result' = "OverCapacity"
                  /\ edges' = edges]_vars

\* A full graph of several edges has just refused one more.
C4_Witness ==
    /\ pc = "graph" /\ insert_result = "OverCapacity"
    /\ Len(edges) = cap /\ cap >= 2
    /\ last_edge # edges[Len(edges)]

(* C9: throughout into_topo_sorted, on every input (cyclic or not), the    *)
(* starting-node set holds at most as many nodes as the graph had edges,   *)
(* hence at most C; no insert into it fails, neither while seeding nor     *)
(* when a `to` node is freed; no node in it has a remaining incoming edge  *)
(* from another node; and Err(OverCapacity) comes only from the push onto  *)
(* the output.                                                             *)
C9_StartingSetBounded ==
    /\ Cardinality(starting_nodes) <= Len(input)
    /\ Cardinality(starting_nodes) <= cap
    /\ site \notin {"seed", "insert"}
    /\ result = "OverCapacity" => site = "push"
    /\ pc = "loop" =>
           \A n \in starting_nodes :
               ~ \E i \in 1..Len(edges) : edges[i].to = n /\ edges[i].from # n

\* After one iteration the set is as large as the bound allows: a star.
C9_Witness ==
    /\ pc = "loop" /\ iters >= 1
    /\ Cardinality(starting_nodes) = Len(input)
    /\ Len(input) = cap

(* C10: into_topo_sorted terminates with exactly one of Ok, Err(Cycle),    *)
(* Err(OverCapacity); each run of the loop body takes one node out of the  *)
(* starting set and either appends it to the output or returns             *)
(* OverCapacity; no node is appended twice; the body runs at most C + 1    *)
(* times.                                                                  *)
C10_Terminates ==
    /\ [](/\ iters <= cap + 1
          /\ NoDup(res)
          /\ Len(res) <= cap
          /\ (pc = "done") <=> (result \in {"Ok", "Cycle", "OverCapacity"})
          /\ (pc # "done") <=> (result = "none"))
    /\ [][(pc = "loop" /\ iters' # iters) =>
              /\ iters' = iters + 1
              /\ \E node \in starting_nodes :
                     /\ node \notin starting_nodes'
                     /\ \/ res' = Append(res, node) /\ node \notin Range(res)
                        \/ pc' = "done" /\ result' = "OverCapacity"]_vars
    /\ (pc = "loop") ~> (pc = "done")

\* The body ran C + 1 times: C pushes, then the push that did not fit.
C10_Witness ==
    /\ Returned /\ iters = cap + 1 /\ result = "OverCapacity" /\ cap = 4

====
